---- MODULE Spec2Model ----
(***************************************************************************)
(* Model of the URL shortener in src/app.py: the links table, the three    *)
(* request handlers shorten_url (register), redirect_to_original (resolve) *)
(* and get_stats (stats), each run by independent workers that interleave  *)
(* at the granularity of one database round trip.                          *)
(*                                                                         *)
(* Conventions.  A Python string whose characters matter (short codes, the *)
(* 'expires' field) is a sequence of one-character strings; the URL is an  *)
(* opaque string.  An optional value (None / NULL) is the empty sequence   *)
(* <<>> and a present value v is the one-element sequence <<v>>.  Time is  *)
(* counted in days.                                                        *)
(*                                                                         *)
(* A statement and the commit that follows it are one step: SQLite lets    *)
(* one connection write at a time and shows the others the table as it was *)
(* until the commit.  Between the SELECT and the INSERT or UPDATE of a     *)
(* handler the connection holds no lock, so other handlers may run there.  *)
(* Failures of the store other than the uniqueness constraint are not part *)
(* of Spec; SpecFault adds them.                                           *)
(*                                                                         *)
(* hist and obs are history variables: no handler reads them.  last holds  *)
(* the request answered by the step just taken together with what obs      *)
(* recorded for it, and is cleared by the next step.                       *)
(***************************************************************************)
EXTENDS Integers, Sequences, FiniteSets, TLC

VARIABLES
    links,   \* the rows of table links, in insertion order (row i has id i)
    now,     \* the wall clock read by datetime.now() / CURRENT_TIMESTAMP
    ncalls,  \* number of requests accepted so far
    pc,      \* per worker: position inside the handler it runs
    req,     \* per worker: the request being served
    loc,     \* per worker: the handler's local variables
    last,    \* the request answered by the latest step, with its response
    hist,    \* history, per link id: how the row was made and looked up
    obs      \* history, per worker: what the running call has observed

vars == <<links, now, ncalls, pc, req, loc, last, hist, obs>>

----------------------------------------------------------------------------
(* Bounds *)

NumWorkers == 2
MaxCalls == 3
MaxNow == 1
MaxLinks == 2

Workers == 1..NumWorkers

(* Program constants *)

DefaultLength == 6

----------------------------------------------------------------------------
(* Values *)

None == <<>>
Some(v) == <<v>>

\* Python truthiness of an optional string: None and '' are falsy.
TruthyUrl(u) == u # None /\ u[1] # ""
\* Variant: only None is falsy
TruthyStrNotNone(s) == s # None

TruthyStr(s) == s # None /\ s[1] # <<>>

Never == <<"n", "e", "v", "e", "r">>
DefaultExpires == <<"3", "0", "d">>
SITE_DOMAIN == "localhost:5000"

\* string.ascii_letters + string.digits, cut down to its first symbols
Chars == {"a", "b"}

Digits == {"0", "1", "2", "3", "4", "5", "6", "7", "8", "9"}

DigitVal(c) ==
    CASE c = "0" -> 0 [] c = "1" -> 1 [] c = "2" -> 2 [] c = "3" -> 3
      [] c = "4" -> 4 [] c = "5" -> 5 [] c = "6" -> 6 [] c = "7" -> 7
      [] c = "8" -> 8 [] c = "9" -> 9

\* str.replace('d', ''): drop every occurrence of the character
Replace(s, ch) == SelectSeq(s, LAMBDA c : c # ch)

RECURSIVE DigitsValue(_)
DigitsValue(s) ==
    IF s = <<>> THEN 0
    ELSE 10 * DigitsValue(SubSeq(s, 1, Len(s) - 1)) + DigitVal(s[Len(s)])

AllDigits(s) == s # <<>> /\ \A i \in 1..Len(s) : s[i] \in Digits

\* int(s) on a decimal literal with an optional sign: Some(n), or None for
\* the ValueError that int raises on anything else.
PyInt(s) ==
    IF s # <<>> /\ s[1] \in {"-", "+"}
    THEN IF AllDigits(Tail(s))
         THEN Some(IF s[1] = "-" THEN 0 - DigitsValue(Tail(s))
                                 ELSE DigitsValue(Tail(s)))
         ELSE None
    ELSE IF AllDigits(s) THEN Some(DigitsValue(s)) ELSE None

----------------------------------------------------------------------------
(* Timestamps as stored in the TIMESTAMP columns.  A stored timestamp is a *)
(* text value: the date, the separator between date and time, the time.    *)
(* Only the separator and the day matter here.                             *)

\* datetime.isoformat(): the text 'YYYY-MM-DDTHH:MM:SS.ffffff'
IsoFormat(t) == [kind |-> "text", sep |-> "T", t |-> t]

\* CURRENT_TIMESTAMP: the text 'YYYY-MM-DD HH:MM:SS'
CurrentTimestamp(t) == [kind |-> "text", sep |-> " ", t |-> t]

\* The converter sqlite3 registers for the declared type TIMESTAMP.  The
\* connection is opened with PARSE_DECLTYPES, so it is applied to every
\* non-NULL value read from a column declared TIMESTAMP: it splits the text
\* at a blank into date and time, and raises ValueError when the text holds
\* no blank.  Some(datetime), or None for the ValueError.
ConvertTimestamp(val) ==
    IF val.sep = " " THEN Some([kind |-> "datetime", sep |-> " ", t |-> val.t])
    ELSE None

\* datetime.fromisoformat(v): Some(day) on text, None for the TypeError it
\* raises on an argument that is not a str.
FromIsoFormat(v) == IF v.kind = "text" THEN Some(v.t) ELSE None

----------------------------------------------------------------------------
(* The links table *)

\* SELECT ... FROM links WHERE short_code = ?  followed by fetchone(): the
\* stored row as Some(row), or None when no row has the code.
SelectByCode(rows, code) ==
    IF \E i \in DOMAIN rows : rows[i].short_code = code
    THEN Some(rows[CHOOSE i \in DOMAIN rows : rows[i].short_code = code])
    ELSE None

\* Variant: the column without its UNIQUE constraint
UniqueViolationOff(rows, code) == FALSE

\* short_code TEXT NOT NULL UNIQUE: an insert of a code some row holds fails.
UniqueViolation(rows, code) == \E i \in DOMAIN rows : rows[i].short_code = code

\* Variant: the INSERT without the expires_at column
InsertLinkNoExpiry(rows, url, code, expires, t) ==
    Append(rows, [id |-> Len(rows) + 1,
                  original_url |-> url,
                  short_code |-> code,
                  created_at |-> CurrentTimestamp(t),
                  expires_at |-> None,
                  visit_count |-> 0])

\* INSERT INTO links (original_url, short_code, expires_at): the other
\* columns take their defaults.
InsertLink(rows, url, code, expires, t) ==
    Append(rows, [id |-> Len(rows) + 1,
                  original_url |-> url,
                  short_code |-> code,
                  created_at |-> CurrentTimestamp(t),
                  expires_at |-> expires,
                  visit_count |-> 0])

\* Variant: the UPDATE also resets the expiration
UpdateVisitCountAndExpiry(rows, code, v) ==
    [i \in DOMAIN rows |->
        IF rows[i].short_code = code
        THEN [rows[i] EXCEPT !.visit_count = v,
                             !.expires_at = Some(IsoFormat(v))]
        ELSE rows[i]]

\* UPDATE links SET visit_count = ? WHERE short_code = ?
UpdateVisitCount(rows, code, v) ==
    [i \in DOMAIN rows |->
        IF rows[i].short_code = code THEN [rows[i] EXCEPT !.visit_count = v]
        ELSE rows[i]]

\* Reading the TIMESTAMP column expires_at of a fetched row: NULL comes back
\* as None without conversion.  [raised, v]: whether the converter raised,
\* and the Python value otherwise.
FetchTimestamp(col) ==
    IF col = None THEN [raised |-> FALSE, v |-> None]
    ELSE [raised |-> ConvertTimestamp(col[1]) = None,
          v |-> ConvertTimestamp(col[1])]

----------------------------------------------------------------------------
(* Code Generator *)

\* generate_short_code(length): every string of that length over chars
generate_short_code(length) == [1..length -> Chars]

\* The draws of the random source that are explored: the codes that repeat
\* one symbol.
Candidates ==
    {c \in generate_short_code(DefaultLength) :
        \A i \in 1..DefaultLength : c[i] = c[1]}

----------------------------------------------------------------------------
(* Requests and responses *)

\* A request: its kind, the JSON fields of a register request, and the short
\* code it is about (for a register request, the code it tried to insert).
NoReq == [op |-> "none", url |-> None, custom |-> None, expires |-> None,
          code |-> <<>>]
NoLoc == [original_url |-> "", short_code |-> <<>>, expires_at |-> None,
          link |-> None]
NoResp == [status |-> 0, body |-> [none |-> TRUE]]

\* What the history keeps of a call: the row its first lookup found and
\* whether that row's expiration lay in the past then, how many calls had
\* looked that row up before and how many of them while it was not expired,
\* whether another call ran at the same time, and whether its insert hit the
\* uniqueness constraint.
NoObs == [pre |-> None, expired |-> FALSE, opsBefore |-> 0, validBefore |-> 0,
          overlap |-> FALSE, raced |-> FALSE]

NoLast == [req |-> NoReq, resp |-> NoResp, obs |-> NoObs]

Error(status, msg) == [status |-> status, body |-> [error |-> msg]]

\* An exception that leaves the handler: the framework answers 500.
Unhandled(exc) == [status |-> 500, body |-> [unhandled |-> exc]]

\* Inputs of shorten_url: the JSON fields url, custom and expires
Promo == <<"p", "r", "o", "m", "o">>

ShortenInputs ==
    { [url |-> Some("https://a.com"), custom |-> None, expires |-> None],
      [url |-> Some("https://a.com"), custom |-> Some(Promo),
       expires |-> Some(Never)],
      [url |-> Some("https://b.com"), custom |-> Some(Promo),
       expires |-> Some(<<"-", "1", "d">>)],
      [url |-> Some("https://b.com"), custom |-> Some(<<>>),
       expires |-> Some(<<"0", "d">>)],
      [url |-> Some("https://a.com"), custom |-> Some(Promo),
       expires |-> Some(<<"x">>)],
      [url |-> Some(""), custom |-> Some(Promo), expires |-> Some(Never)],
      [url |-> None, custom |-> None, expires |-> None] }

\* The codes a resolve or stats request may name: those in the table and one
\* that no row holds.
UnknownCode == <<"n", "o">>
RequestCodes == {links[i].short_code : i \in DOMAIN links} \cup {UnknownCode}

\* The database file outlives the process (CREATE TABLE IF NOT EXISTS): at
\* start the table is empty or holds what an earlier run has stored, here
\* one link registered with a custom code and expires 'never'.
Stored == InsertLink(<<>>, "https://a.com", Promo, None, 0)

Init ==
    /\ links \in {<<>>, Stored}
    /\ now = 0
    /\ ncalls = 0
    /\ pc = [w \in Workers |-> "idle"]
    /\ req = [w \in Workers |-> NoReq]
    /\ loc = [w \in Workers |-> NoLoc]
    /\ last = NoLast
    /\ hist = [i \in DOMAIN links |->
                  [expires |-> Some(Never), ops |-> 0, valid |-> 0,
                   committed |-> 0]]
    /\ obs = [w \in Workers |-> NoObs]

\* Worker w takes the next request.  Workers are interchangeable: a request
\* goes to the first idle one.
Accepts(w) ==
    /\ pc[w] = "idle"
    /\ \A v \in Workers : v < w => pc[v] # "idle"
    /\ ncalls < MaxCalls

----------------------------------------------------------------------------
(* History *)

\* Some handler is between two of its statements.
Busy == \E v \in Workers : pc[v] # "idle"

\* Whether the stored expiration of a row lies strictly before time t
Expired(row, t) == row.expires_at # None /\ row.expires_at[1].t < t

\* What a call that looks a code up at its start leaves in the history
Observe(row) ==
    [NoObs EXCEPT
        !.pre = row,
        !.expired = row # None /\ Expired(row[1], now),
        !.opsBefore = IF row = None THEN 0 ELSE hist[row[1].id].ops,
        !.validBefore = IF row = None THEN 0 ELSE hist[row[1].id].valid,
        !.overlap = Busy]

\* A call that starts while others run overlaps them.
Overlapped == [v \in Workers |->
                  IF pc[v] # "idle" THEN [obs[v] EXCEPT !.overlap = TRUE]
                  ELSE obs[v]]

----------------------------------------------------------------------------
(* Control *)

\* The handler of worker w goes on to position p with locals l.
Goto(w, rq, p, l, o) ==
    /\ pc' = [pc EXCEPT ![w] = p]
    /\ req' = [req EXCEPT ![w] = rq]
    /\ loc' = [loc EXCEPT ![w] = l]
    /\ obs' = [Overlapped EXCEPT ![w] = o]
    /\ last' = NoLast

\* The handler of worker w returns response r (finally: db.close()).
Reply(w, rq, r, o) ==
    /\ pc' = [pc EXCEPT ![w] = "idle"]
    /\ req' = [req EXCEPT ![w] = NoReq]
    /\ loc' = [loc EXCEPT ![w] = NoLoc]
    /\ obs' = [obs EXCEPT ![w] = NoObs]
    /\ last' = [req |-> rq, resp |-> r, obs |-> o]

----------------------------------------------------------------------------
(* Link Registrar: shorten_url *)

\* Variant: the existence check of the custom code left out
CustomCodeExistsSkipped(rows, code) == FALSE

\* lines 79-80: SELECT id ... WHERE short_code = custom_code finds a row
CustomCodeExists(rows, code) == SelectByCode(rows, code) # None

\* Variant: 'never' handled like the default '30d'
DaysNeverAsDefault(expires_in) ==
    [raised |-> PyInt(Replace(IF expires_in = Never THEN DefaultExpires
                              ELSE expires_in, "d")) = None,
     v |-> PyInt(Replace(IF expires_in = Never THEN DefaultExpires
                         ELSE expires_in, "d"))]

\* line 69: days (an int, or None for 'never'); raised when int() raises
Days(expires_in) ==
    IF expires_in # Never
    THEN [raised |-> PyInt(Replace(expires_in, "d")) = None,
          v |-> PyInt(Replace(expires_in, "d"))]
    ELSE [raised |-> FALSE, v |-> None]

\* line 70: None and 0 are falsy
ExpiresAt(days, t) ==
    IF days # None /\ days[1] # 0 THEN Some(t + days[1]) ELSE None

\* The history of a row starts when it is inserted.
Created(expires) ==
    [expires |-> expires, ops |-> 0, valid |-> 0, committed |-> 0]

\* The register calls under way; with the rows of the table they are held
\* below MaxLinks.
InFlightShorten == Cardinality({w \in Workers : req[w].op = "shorten"})

\* Whether a register call with these fields may still add a row to the
\* table as it is: calls that may not are outside the bound MaxLinks.
MayInsert(url, custom, expires) ==
    /\ TruthyUrl(url)
    /\ ~Days(IF expires = None THEN DefaultExpires ELSE expires[1]).raised
    /\ IF TruthyStr(custom) THEN ~CustomCodeExists(links, custom[1])
       ELSE \E cand \in Candidates : SelectByCode(links, cand) = None

\* lines 59-82: read the request, validate the URL, compute expires_at and,
\* for a custom code, check that no row holds it
ShortenStart(w, url, custom, expires) ==
    /\ Accepts(w)
    /\ MayInsert(url, custom, expires)
          => Len(links) + InFlightShorten < MaxLinks
    /\ ncalls' = ncalls + 1
    /\ LET rq == [op |-> "shorten", url |-> url, custom |-> custom,
                  expires |-> expires, code |-> <<>>]
           o == Observe(IF TruthyStr(custom)
                        THEN SelectByCode(links, custom[1]) ELSE None)
           expires_in == IF expires = None THEN DefaultExpires ELSE expires[1]
           days == Days(expires_in)
           locals == [NoLoc EXCEPT !.original_url = url[1],
                                   !.expires_at = ExpiresAt(days.v, now)]
       IN IF ~TruthyUrl(url)
          THEN Reply(w, rq, Error(400, "URL is required"), o)
          ELSE IF days.raised
          THEN Reply(w, rq, Unhandled("ValueError"), o)
          ELSE IF ~TruthyStr(custom)
          THEN Goto(w, rq, "generate", locals, o)
          ELSE IF CustomCodeExists(links, custom[1])
          THEN Reply(w, rq, Error(409, "Custom code already exists"), o)
          ELSE Goto(w, rq, "insert",
                    [locals EXCEPT !.short_code = custom[1]], o)
    /\ UNCHANGED <<links, now, hist>>

\* lines 85-89: one turn of the loop that draws a candidate and looks it up
ShortenGenerate(w) ==
    /\ pc[w] = "generate"
    /\ \E cand \in Candidates :
          /\ loc' = [loc EXCEPT ![w].short_code = cand]
          /\ pc' = [pc EXCEPT ![w] =
                       IF SelectByCode(links, cand) = None THEN "insert"
                       ELSE "generate"]
    /\ last' = NoLast
    /\ UNCHANGED <<links, now, ncalls, req, hist, obs>>

\* lines 92-110: insert and commit, or roll back and answer 500 when the
\* insert raises
ShortenInsert(w) ==
    /\ pc[w] = "insert"
    /\ LET expires_at == loc[w].expires_at
           text == IF expires_at # None THEN Some(IsoFormat(expires_at[1]))
                   ELSE None
       IN IF UniqueViolation(links, loc[w].short_code)
          THEN /\ Reply(w, [req[w] EXCEPT !.code = loc[w].short_code],
                        Error(500,
                           "UNIQUE constraint failed: links.short_code"),
                        [obs[w] EXCEPT !.raced = TRUE])
               /\ UNCHANGED <<links, hist>>
          ELSE /\ links' = InsertLink(links, loc[w].original_url,
                                      loc[w].short_code, text, now)
               /\ hist' = Append(hist, Created(req[w].expires))
               /\ Reply(w, [req[w] EXCEPT !.code = loc[w].short_code],
                    [status |-> 200,
                     body |-> [short_url |-> <<"https://", SITE_DOMAIN, "/",
                                               loc[w].short_code>>,
                               short_code |-> loc[w].short_code,
                               expires_at |-> text]],
                    obs[w])
    /\ UNCHANGED <<now, ncalls>>

----------------------------------------------------------------------------
(* Link Resolver: redirect_to_original *)

\* A lookup of the row by a resolve or stats call enters the history: ops
\* counts the lookups, valid those of resolve calls while the row's
\* expiration did not lie in the past.
Record(row, op) ==
    IF row = None THEN hist
    ELSE [hist EXCEPT ![row[1].id] =
             [@ EXCEPT !.ops = @ + 1,
                       !.valid = @ + IF op = "resolve" /\ ~Expired(row[1], now)
                                     THEN 1 ELSE 0]]

\* lines 115-131: look the code up, fetch the row, check the expiration
ResolveSelect(w, code) ==
    /\ Accepts(w)
    /\ ncalls' = ncalls + 1
    /\ LET rq == [NoReq EXCEPT !.op = "resolve", !.code = code]
           row == SelectByCode(links, code)
           o == Observe(row)
           expires_at == FetchTimestamp(row[1].expires_at)
       IN /\ hist' = Record(row, "resolve")
          /\ IF row = None
             THEN Reply(w, rq, Error(404, "Short code not found"), o)
             ELSE IF expires_at.raised
             THEN Reply(w, rq, Error(500,
                     "not enough values to unpack (expected 2, got 1)"), o)
             ELSE IF expires_at.v # None
                     /\ FromIsoFormat(expires_at.v[1]) = None
             THEN Reply(w, rq, Error(500,
                     "fromisoformat: argument must be str"), o)
             ELSE IF expires_at.v # None
                     /\ FromIsoFormat(expires_at.v[1])[1] < now
             THEN Reply(w, rq, Error(410, "Link has expired"), o)
             ELSE Goto(w, rq, "update",
                       [NoLoc EXCEPT !.link =
                           Some([original_url |-> row[1].original_url,
                                 expires_at |-> expires_at.v,
                                 visit_count |-> row[1].visit_count])], o)
    /\ UNCHANGED <<links, now>>

\* The update of a resolve call on the code has been committed.
Committed(code) ==
    [i \in DOMAIN hist |->
        IF links[i].short_code = code
        THEN [hist[i] EXCEPT !.committed = @ + 1] ELSE hist[i]]

\* Variant: the increment applied twice
ResolveUpdateTwice(w) ==
    /\ pc[w] = "update"
    /\ links' = UpdateVisitCount(links, req[w].code,
                                 loc[w].link[1].visit_count + 2)
    /\ hist' = Committed(req[w].code)
    /\ Reply(w, req[w],
             [status |-> 302,
              body |-> [redirect |-> loc[w].link[1].original_url]], obs[w])
    /\ UNCHANGED <<now, ncalls>>

\* lines 134-146: write the count that was read plus one, commit, answer
ResolveUpdate(w) ==
    /\ pc[w] = "update"
    /\ links' = UpdateVisitCount(links, req[w].code,
                                 loc[w].link[1].visit_count + 1)
    /\ hist' = Committed(req[w].code)
    /\ Reply(w, req[w],
             [status |-> 302,
              body |-> [redirect |-> loc[w].link[1].original_url]], obs[w])
    /\ UNCHANGED <<now, ncalls>>

----------------------------------------------------------------------------
(* Stats Reader: get_stats *)

\* Variant: stats counted as a visit
GetStatsCounting(w, code) ==
    /\ Accepts(w)
    /\ ncalls' = ncalls + 1
    /\ LET rq == [NoReq EXCEPT !.op = "stats", !.code = code]
           row == SelectByCode(links, code)
       IN /\ hist' = Record(row, "stats")
          /\ links' = IF row = None THEN links
                      ELSE UpdateVisitCount(links, code,
                                            row[1].visit_count + 1)
          /\ Reply(w, rq,
                IF row = None THEN Error(404, "Short code not found")
                ELSE IF FetchTimestamp(row[1].expires_at).raised
                THEN Unhandled("ValueError")
                ELSE [status |-> 200,
                      body |-> [original_url |-> row[1].original_url,
                                created_at |->
                                   FetchTimestamp(Some(row[1].created_at)).v,
                                expires_at |-> None,
                                visit_count |-> row[1].visit_count + 1]],
                Observe(row))
    /\ UNCHANGED now

\* lines 150-171: one SELECT; an exception raised while fetching leaves the
\* handler, which has no except clause
GetStats(w, code) ==
    /\ Accepts(w)
    /\ ncalls' = ncalls + 1
    /\ LET rq == [NoReq EXCEPT !.op = "stats", !.code = code]
           row == SelectByCode(links, code)
           created_at == FetchTimestamp(Some(row[1].created_at))
           expires_at == FetchTimestamp(row[1].expires_at)
       IN /\ hist' = Record(row, "stats")
          /\ Reply(w, rq,
                IF row = None THEN Error(404, "Short code not found")
                ELSE IF created_at.raised \/ expires_at.raised
                THEN Unhandled("ValueError")
                ELSE [status |-> 200,
                      body |-> [original_url |-> row[1].original_url,
                                created_at |-> created_at.v,
                                expires_at |-> expires_at.v,
                                visit_count |-> row[1].visit_count]],
                Observe(row))
    /\ UNCHANGED <<links, now>>

----------------------------------------------------------------------------
(* Failures of the store *)

\* Variant: what the failed transaction wrote stays in the table
RollbackKeepsPending(committed, pending) == pending

\* db.rollback() in the except clause of shorten_url, and db.close() on a
\* connection whose transaction is open: the table is as the last commit
\* left it, whatever the transaction has written.
Rollback(committed, pending) == committed

StoreFailure == Error(500, "database is locked")

\* lines 92-96 and 106-110: the INSERT or the commit raises for a reason
\* other than the uniqueness constraint; the handler rolls back and
\* answers 500.
ShortenInsertFails(w) ==
    /\ pc[w] = "insert"
    /\ LET expires_at == loc[w].expires_at
           text == IF expires_at # None THEN Some(IsoFormat(expires_at[1]))
                   ELSE None
           pending == IF UniqueViolation(links, loc[w].short_code) THEN links
                      ELSE InsertLink(links, loc[w].original_url,
                                      loc[w].short_code, text, now)
       IN /\ links' = Rollback(links, pending)
          /\ hist' = IF Len(links') > Len(links)
                     THEN Append(hist, Created(req[w].expires)) ELSE hist
    /\ Reply(w, [req[w] EXCEPT !.code = loc[w].short_code], StoreFailure,
             obs[w])
    /\ UNCHANGED <<now, ncalls>>

\* lines 134-138 and 143-146: the UPDATE or the commit raises; the handler
\* answers 500 and closes the connection.
ResolveUpdateFails(w) ==
    /\ pc[w] = "update"
    /\ links' = Rollback(links,
                         UpdateVisitCount(links, req[w].code,
                                          loc[w].link[1].visit_count + 1))
    /\ Reply(w, req[w], StoreFailure, obs[w])
    /\ UNCHANGED <<now, ncalls, hist>>

----------------------------------------------------------------------------
(* Environment *)

\* The clock advances by a day.
Tick ==
    /\ now < MaxNow
    /\ now' = now + 1
    /\ last' = NoLast
    /\ UNCHANGED <<links, ncalls, pc, req, loc, hist, obs>>

Next ==
    \/ \E w \in Workers, data \in ShortenInputs :
          ShortenStart(w, data.url, data.custom, data.expires)
    \/ \E w \in Workers : ShortenGenerate(w)
    \/ \E w \in Workers : ShortenInsert(w)
    \/ \E w \in Workers, code \in RequestCodes : ResolveSelect(w, code)
    \/ \E w \in Workers : ResolveUpdate(w)
    \/ \E w \in Workers, code \in RequestCodes : GetStats(w, code)
    \/ Tick

Spec == Init /\ [][Next]_vars

\* The program with a store that may fail at a write or at its commit
NextFault ==
    \/ Next
    \/ \E w \in Workers : ShortenInsertFails(w)
    \/ \E w \in Workers : ResolveUpdateFails(w)

SpecFault == Init /\ [][NextFault]_vars

\* The program under a fair scheduler and a fair random source: a handler
\* that has started goes on with its next statement, and a loop turn that
\* can draw a free code again and again does draw one.
Fairness ==
    \A w \in Workers :
        /\ WF_vars(ShortenGenerate(w))
        /\ SF_vars(ShortenGenerate(w) /\ pc'[w] = "insert")
        /\ WF_vars(ShortenInsert(w))
        /\ WF_vars(ResolveUpdate(w))

FairSpec == Spec /\ Fairness

----------------------------------------------------------------------------
(* Properties *)

\* The 'expires' field follows the grammar: absent, 'never' or '<integer>d'
InGrammar(e) ==
    \/ e = None
    \/ e[1] = Never
    \/ /\ Len(e[1]) >= 2
       /\ e[1][Len(e[1])] = "d"
       /\ PyInt(SubSeq(e[1], 1, Len(e[1]) - 1)) # None

\* The step has answered a request of kind op.
Answered(op) == last.req.op = op

\* The step has answered a register request with a URL and a well-formed
\* 'expires' field.
AnsweredValidShorten ==
    /\ Answered("shorten")
    /\ TruthyUrl(last.req.url)
    /\ InGrammar(last.req.expires)

RowsWithCode(code) == {i \in DOMAIN links : links[i].short_code = code}

Redirect(url) == [status |-> 302, body |-> [redirect |-> url]]

\* C1: no two rows of the table ever hold the same short_code, also when
\* two register calls have both passed the existence check before either
\* of them inserts.
C1_UniqueShortCode ==
    \A i, j \in DOMAIN links :
        i # j => links[i].short_code # links[j].short_code

\* C1 witness: a register call passed its existence check and then found
\* the code taken at insert time.
C1_Witness ==
    /\ Answered("shorten")
    /\ last.obs.raced
    /\ Cardinality(RowsWithCode(last.req.code)) = 1

\* C2: resolve calls on an existing, non-expired code lose no update: once
\* none of them is still between its read and its write, the row's
\* visit_count is the number of such calls, and each of them is answered
\* with the original URL.
C2_NoLostUpdate ==
    /\ \A i \in DOMAIN links :
          (\A w \in Workers : ~(pc[w] = "update"
                                /\ req[w].code = links[i].short_code))
          => links[i].visit_count = hist[i].valid
    /\ (Answered("resolve") /\ last.obs.pre # None /\ ~last.obs.expired)
          => last.resp = Redirect(last.obs.pre[1].original_url)

\* C3: a register call with a custom code that passes the existence check
\* and is stopped by the uniqueness constraint at insert time fails with
\* ConflictError (409).
C3_CustomRaceIsConflict ==
    (AnsweredValidShorten /\ TruthyStr(last.req.custom) /\ last.obs.raced)
        => last.resp.status = 409

\* C4: a register call without a custom code always succeeds, also when a
\* candidate it drew is taken at insert time, and the code it returns is
\* held by exactly one row.
C4_GeneratedRaceRetries ==
    (AnsweredValidShorten /\ ~TruthyStr(last.req.custom))
        => /\ last.resp.status = 200
           /\ Cardinality(RowsWithCode(last.resp.body.short_code)) = 1

\* C5: no step decreases the visit_count of a row, and a step that changes
\* it is the write of a resolve call on that row's code that found the row
\* not expired.
C5_CountOnlyGrows ==
    [][\A i \in DOMAIN links :
          /\ links'[i].visit_count >= links[i].visit_count
          /\ links'[i].visit_count # links[i].visit_count
                => \E w \in Workers :
                      /\ pc[w] = "update" /\ pc'[w] = "idle"
                      /\ req[w].code = links[i].short_code
                      /\ ~obs[w].expired]_vars

\* C6: the first resolve of a registered, non-expired code, with no other
\* request on that code meanwhile, is answered with the original URL and
\* leaves visit_count = 1; a stats call that follows it reports
\* visit_count = 1.
C6_RegisterResolveStats ==
    /\ ( /\ Answered("resolve")
         /\ last.obs.pre # None
         /\ ~last.obs.expired
         /\ last.obs.opsBefore = 0
         /\ hist[last.obs.pre[1].id].ops = 1 )
       => /\ last.resp = Redirect(last.obs.pre[1].original_url)
          /\ links[last.obs.pre[1].id].visit_count = 1
    /\ ( /\ Answered("stats")
         /\ last.obs.pre # None
         /\ ~last.obs.expired
         /\ last.obs.opsBefore = 1
         /\ last.obs.validBefore = 1
         /\ ~last.obs.overlap )
       => /\ last.resp.status = 200
          /\ last.resp.body.visit_count = 1

\* C7: a register call with a custom code that a row holds when the call
\* starts fails with ConflictError (409) and leaves exactly that one row
\* with the code, its original_url and expires_at untouched; a call that
\* finds the code free and runs alone succeeds and stores its URL.
C7_CustomCodeConflict ==
    (AnsweredValidShorten /\ TruthyStr(last.req.custom))
        => /\ last.obs.pre # None
                => /\ last.resp.status = 409
                   /\ RowsWithCode(last.req.custom[1]) = {last.obs.pre[1].id}
                   /\ links[last.obs.pre[1].id].original_url
                         = last.obs.pre[1].original_url
                   /\ links[last.obs.pre[1].id].expires_at
                         = last.obs.pre[1].expires_at
           /\ (last.obs.pre = None /\ ~last.obs.overlap)
                => /\ last.resp.status = 200
                   /\ \E i \in RowsWithCode(last.req.custom[1]) :
                         links[i].original_url = last.req.url[1]

\* C7 witness: the second registration of a custom code, with another URL
\* and another time to live than the row has, is refused.
C7_Witness ==
    /\ AnsweredValidShorten
    /\ TruthyStr(last.req.custom)
    /\ last.obs.pre # None
    /\ last.obs.pre[1].original_url # last.req.url[1]
    /\ last.obs.pre[1].expires_at = None
    /\ last.req.expires # Some(Never)
    /\ last.resp.status = 409

\* C8: resolve of a row whose expires_at lies in the past fails with
\* ExpiredError (410) and keeps the row, and stats on it returns the row's
\* original_url, expires_at and visit_count.
C8_ExpiredRejected ==
    /\ (Answered("resolve") /\ last.obs.expired)
          => /\ last.resp.status = 410
             /\ links[last.obs.pre[1].id] = last.obs.pre[1]
    /\ (Answered("stats") /\ last.obs.expired)
          => /\ last.resp.status = 200
             /\ last.resp.body.original_url = last.obs.pre[1].original_url
             /\ last.resp.body.visit_count = last.obs.pre[1].visit_count

\* C9: a row registered with expires 'never' has expires_at NULL, and every
\* resolve of its code is answered with the redirect, whatever the time.
C9_NeverResolves ==
    /\ \A i \in DOMAIN links :
          hist[i].expires = Some(Never) => links[i].expires_at = None
    /\ ( /\ Answered("resolve")
         /\ last.obs.pre # None
         /\ hist[last.obs.pre[1].id].expires = Some(Never) )
       => last.resp = Redirect(last.obs.pre[1].original_url)

\* C9 witness: a link registered with 'never' is resolved after the clock
\* has advanced past its creation.
C9_Witness ==
    /\ Answered("resolve")
    /\ last.obs.pre # None
    /\ hist[last.obs.pre[1].id].expires = Some(Never)
    /\ last.obs.pre[1].created_at.t < now
    /\ last.resp.status = 302

\* A step that serves one stats request
StatsStep ==
    /\ ncalls' = ncalls + 1
    /\ pc' = pc
    /\ last'.req.op = "stats"

\* C10: a stats call leaves the whole table as it was, whatever the code,
\* and a stats call that directly follows another on the same code reports
\* the same visit_count.
C10_StatsIsPure ==
    [][StatsStep =>
          /\ links' = links
          /\ ( /\ Answered("stats")
               /\ last.req.code = last'.req.code
               /\ last.resp.status = 200 )
             => /\ last'.resp.status = 200
                /\ last'.resp.body.visit_count = last.resp.body.visit_count
      ]_vars

\* C10 witness: stats has been served on a row that was resolved before.
C10_Witness ==
    /\ Answered("stats")
    /\ last.resp.status = 200
    /\ last.obs.opsBefore >= 1
    /\ last.resp.body.visit_count >= 1

\* C11: a step that answers a register request with anything but success
\* (400 for a missing or empty URL, 409 for a taken custom code, 500 for an
\* exception, among them a failure of the store at the insert or at its
\* commit) leaves the table exactly as it was.
C11_FailedRegisterKeepsTable ==
    [][(last'.req.op = "shorten" /\ last'.resp.status # 200)
          => links' = links]_vars

\* C11 witness: the store has failed at the insert of a register call that
\* had passed its checks, while the table holds a row.
C11_Witness ==
    /\ Answered("shorten")
    /\ last.resp = StoreFailure
    /\ ~UniqueViolation(links, last.req.code)
    /\ links # <<>>

\* C12: a step that answers a register request with success has appended
\* exactly one row and changed no other; the new row holds the caller's
\* URL, the chosen code (a custom code verbatim, else a generated one), the
\* expires_at the handler computed and visit_count 0; the short_code and
\* expires_at of the response are those of the row.
C12_RegisterInsertsOneRow ==
    [][(last'.req.op = "shorten" /\ last'.resp.status = 200)
          => /\ Len(links') = Len(links) + 1
             /\ SubSeq(links', 1, Len(links)) = links
             /\ LET row == links'[Len(links')]
                    custom == last'.req.custom
                IN /\ row.original_url = last'.req.url[1]
                   /\ TruthyStr(custom) => row.short_code = custom[1]
                   /\ ~TruthyStr(custom)
                         => row.short_code
                               \in generate_short_code(DefaultLength)
                   /\ row.visit_count = 0
                   /\ \E w \in Workers :
                         /\ pc[w] = "insert" /\ pc'[w] = "idle"
                         /\ row.short_code = loc[w].short_code
                         /\ row.expires_at
                               = IF loc[w].expires_at = None THEN None
                                 ELSE Some(IsoFormat(loc[w].expires_at[1]))
                   /\ last'.resp.body.short_code = row.short_code
                   /\ last'.resp.body.expires_at = row.expires_at]_vars

\* C12 witness: a register call with a custom code and a time to live has
\* succeeded on a table that held a row.
C12_Witness ==
    /\ Answered("shorten")
    /\ last.resp.status = 200
    /\ TruthyStr(last.req.custom)
    /\ Len(links) = 2
    /\ links[2].short_code = last.req.custom[1]
    /\ links[2].expires_at # None

\* The number of days a well-formed 'expires' field asks for
GrammarDays(e) ==
    IF e = None THEN 30 ELSE PyInt(SubSeq(e[1], 1, Len(e[1]) - 1))[1]

\* C13: the expires_at a register call computes from a well-formed
\* 'expires' field is NULL for 'never' and for nothing else; an absent
\* field gives now + 30 days and '<N>d' gives the non-NULL now + N days
\* for every integer N, 0 included.
C13_ExpiresAtFromTtl ==
    [][\A w \in Workers :
          ( /\ pc[w] = "idle"
            /\ pc'[w] \in {"generate", "insert"}
            /\ InGrammar(req'[w].expires) )
          => loc'[w].expires_at
                = IF req'[w].expires = Some(Never) THEN None
                  ELSE Some(now + GrammarDays(req'[w].expires))]_vars

\* C14: a step that answers a resolve request with anything but the
\* redirect (404 for an unknown code, 410 for an expired link, 500 for an
\* exception, among them a failure of the store at the update or at its
\* commit) leaves the visit_count of every row unchanged.
C14_FailedResolveKeepsCounts ==
    [][(last'.req.op = "resolve" /\ last'.resp.status # 302)
          => /\ Len(links') = Len(links)
             /\ \A i \in DOMAIN links :
                   links'[i].visit_count = links[i].visit_count]_vars

\* C14 witness: the store has failed at the update of a resolve call on a
\* row that an earlier resolve had counted.
C14_Witness ==
    /\ Answered("resolve")
    /\ last.resp = StoreFailure
    /\ last.obs.pre # None
    /\ links[last.obs.pre[1].id].visit_count >= 1

\* A row without its visit_count
Identity(row) == [row EXCEPT !.visit_count = 0]

\* C15: no step removes a row or changes the id, original_url, short_code,
\* created_at or expires_at of a row; visit_count is the only field of a
\* stored row that changes.
C15_LinkFieldsImmutable ==
    [][/\ Len(links') >= Len(links)
       /\ \A i \in DOMAIN links :
             Identity(links'[i]) = Identity(links[i])]_vars

\* C15 witness: the table holds two rows, one of them with a time to live,
\* and the visit_count of a row has been written.
C15_Witness ==
    /\ Len(links) = 2
    /\ \E i \in DOMAIN links : links[i].expires_at # None
    /\ \E i \in DOMAIN links : links[i].visit_count >= 1

\* C16: a register call without a custom code terminates: once in the loop
\* that draws candidates it leaves it and answers, with a free code or with
\* an error, also when every candidate drawn is held by a row.
C16_GenerateTerminates ==
    \A w \in Workers : (pc[w] = "generate") ~> (pc[w] = "idle")

\* C17: a resolve call on a stored code fails with ExpiredError (410)
\* exactly when the row's expires_at is set and lies strictly before the
\* time of the call; otherwise (expires_at NULL, or not yet passed) it is
\* answered with the redirect and has written the visit_count it read plus
\* one.
C17_ExpiredIffStrictlyPast ==
    (Answered("resolve") /\ last.obs.pre # None)
        => /\ (last.resp.status = 410) <=> last.obs.expired
           /\ ~last.obs.expired
                 => /\ last.resp = Redirect(last.obs.pre[1].original_url)
                    /\ links[last.obs.pre[1].id].visit_count
                          = last.obs.pre[1].visit_count + 1

\* C18: a register call with a URL whose 'expires' field is outside the
\* grammar is answered by the handler itself with a validation error (400
\* and an error body, no exception leaving the handler) and adds no row.
C18_MalformedExpiresRejected ==
    [][( /\ last'.req.op = "shorten"
         /\ TruthyUrl(last'.req.url)
         /\ ~InGrammar(last'.req.expires) )
          => /\ last'.resp.status = 400
             /\ "error" \in DOMAIN last'.resp.body
             /\ links' = links]_vars

\* C19: the visit_count of a row is never negative and never exceeds the
\* number of resolve calls on its code whose update has been committed; it
\* may fall short of that number.
C19_CountNeverOvercounts ==
    \A i \in DOMAIN links :
        /\ links[i].visit_count >= 0
        /\ links[i].visit_count <= hist[i].committed

\* C19 witness: two resolve calls on a code have committed their updates
\* and the row counts fewer.
C19_Witness ==
    \E i \in DOMAIN links :
        /\ hist[i].committed = 2
        /\ links[i].visit_count < hist[i].committed

\* C20: a register call whose custom code is present but empty is treated
\* as one without a custom code: it is never answered with ConflictError
\* (409), a row it stores holds a generated code of 6 symbols of the
\* alphabet, which the response returns, and no row ever holds the empty
\* short_code.
C20_EmptyCustomIsGenerated ==
    /\ \A i \in DOMAIN links : links[i].short_code # <<>>
    /\ (Answered("shorten") /\ last.req.custom = Some(<<>>))
          => /\ last.resp.status # 409
             /\ last.resp.status = 200
                   => /\ last.resp.body.short_code
                            \in generate_short_code(DefaultLength)
                      /\ links[Len(links)].short_code
                            = last.resp.body.short_code

\* C20 witness: a register call with custom code '' has stored a row.
C20_Witness ==
    /\ Answered("shorten")
    /\ last.req.custom = Some(<<>>)
    /\ last.resp.status = 200
    /\ Len(links[Len(links)].short_code) = DefaultLength

====
